---- MODULE Spec2Model ----
(***************************************************************************)
(* Model of the chat hub of main.go: the ClientManager control loop        *)
(* (start, send), the per-client pumps (Client.read, Client.write) and     *)
(* the entry point (wsPage).  Every channel of the program is unbuffered,  *)
(* so a channel send is a rendezvous: it is one step taken jointly by the  *)
(* sender and a receiver that is waiting on that channel.                  *)
(***************************************************************************)
EXTENDS Naturals, Sequences, FiniteSets, TLC

\* ------------------------------------------------------------ bounds
\* What the peers do is an input, fixed in the initial state (env): the sessions
\* that arrive, how many messages the peers send in total, and how many failures
\* happen in total (a failed upgrade, a failed uuid.NewV4, a read error caused
\* by the peer, a failed write on an open socket).
\* The wide scenario: many sessions, few failures.
MaxConns == 3
MaxMsgs == 1
MaxFaults == 1
\* The narrow scenario: fewer sessions, more failures.
FairConns == 2
FairMsgs == 1
FairFaults == 2

ConnNames == <<"A", "B", "C", "D", "E", "F">>
Conns == {ConnNames[i] : i \in 1..MaxConns}
Scenario(n, m, f) == [conns |-> {ConnNames[i] : i \in 1..n}, msgs |-> m, faults |-> f]
WideEnv == Scenario(MaxConns, MaxMsgs, MaxFaults)
NarrowEnv == Scenario(FairConns, FairMsgs, FairFaults)
Texts == {"hi"}
None == "-"

\* ------------------------------------------------------------ envelope
\* Message{Sender, Recipient, Content}; the identity of a client is its uuid
\* string, modelled by the connection's name.
Message(s, r, t) == [Sender |-> s, Recipient |-> r, Content |-> t]

\* json.Marshal(&Message{...}): the keys emitted and their values.  The tag of
\* Sender is malformed (`json: "sender,omitempty"`), so Sender is always
\* emitted under its field name; recipient and content are omitted when empty.
Marshal(m) ==
    [k \in {"Sender"} \cup (IF m.Recipient # "" THEN {"recipient"} ELSE {})
                      \cup (IF m.Content # "" THEN {"content"} ELSE {})
       |-> IF k = "Sender" THEN m.Sender
           ELSE IF k = "recipient" THEN m.Recipient ELSE m.Content]

Field(j, k) == IF k \in DOMAIN j THEN j[k] ELSE ""

JoinNotice == Marshal(Message("", "", "/A new socket has connected"))
LeftNotice == Marshal(Message("", "", "/A socket has disconnected"))
Relay(c, t) == Marshal(Message(c, "", t))
NoMsg == [k \in {"Sender"} |-> None]

\* ------------------------------------------------------------ state
VARIABLES
    env,          \* the scenario: what the peers will do at most
    clients,      \* manager.clients: the live set
    closeCount,   \* per client: number of close(conn.send) executed
    hubpc,        \* "idle" (select at line 53), "send" (loop of send), "range" (loop at 77)
    hubCur,       \* the connection the hub's loop is at
    hubTodo,      \* the connections the hub's loop has still to visit after hubCur
    hubMsg,       \* the message being fanned out
    hubEv,        \* the event being processed: kind, conn, number, and what it saw on receipt
    wspc,         \* per session: position of wsPage
    rpc,          \* per client: position of Client.read
    rmsg,         \* per client: jsonMessage of Client.read
    wpc,          \* per client: position of Client.write
    wcur,         \* per client: message of Client.write
    sockClosed,   \* per client: socket.Close() has been called
    got,          \* per client: messages received from conn.send, each with its event number
    wire,         \* per client: the WriteMessage calls made on the socket, with their outcome
    unregSent,    \* per client: Unregister events the read pump has handed to the hub
    nread,        \* messages read from sockets so far
    nfault,       \* failures injected by the environment so far
    nev,          \* events the hub has received so far
    registered,   \* connections whose Register the hub has received
    unregistered, \* connections whose Unregister the hub has received
    evicted,      \* connections removed by the default branch of a Broadcast
    failed,       \* sessions whose upgrade or uuid.NewV4 failed
    panicked      \* a goroutine panicked (close of a closed channel, send on a closed channel)

vars == <<env, clients, closeCount, hubpc, hubCur, hubTodo, hubMsg, hubEv, wspc, rpc, rmsg,
          wpc, wcur, sockClosed, got, wire, unregSent, nread, nfault, nev,
          registered, unregistered, evicted, failed, panicked>>

hubVars == <<hubpc, hubCur, hubTodo, hubMsg, hubEv>>
ghostSets == <<registered, unregistered, evicted, failed>>
MayFail == nfault < env.faults

NoEv == [kind |-> "none", conn |-> None, n |-> 0, live |-> {}, ready |-> {}]

\* var manager = ClientManager{...}; nothing is connected yet.
Start ==
    /\ clients = {}
    /\ closeCount = [c \in Conns |-> 0]
    /\ hubpc = "idle"
    /\ hubCur = None
    /\ hubTodo = {}
    /\ hubMsg = NoMsg
    /\ hubEv = NoEv
    /\ wspc = [c \in Conns |-> "new"]
    /\ rpc = [c \in Conns |-> "none"]
    /\ rmsg = [c \in Conns |-> NoMsg]
    /\ wpc = [c \in Conns |-> "none"]
    /\ wcur = [c \in Conns |-> NoMsg]
    /\ sockClosed = [c \in Conns |-> FALSE]
    /\ got = [c \in Conns |-> <<>>]
    /\ wire = [c \in Conns |-> <<>>]
    /\ unregSent = [c \in Conns |-> 0]
    /\ nread = 0
    /\ nfault = 0
    /\ nev = 0
    /\ registered = {}
    /\ unregistered = {}
    /\ evicted = {}
    /\ failed = {}
    /\ panicked = FALSE

Init == env \in {WideEnv, NarrowEnv} /\ Start
FairInit == env = NarrowEnv /\ Start

chanClosed(c) == closeCount[c] > 0
\* (mutant) cli.send holds one message: a write pump busy in WriteMessage
\* still lets a send through.
ReceivingOrBusy(c) == wpc[c] \in {"recv", "writing"}

\* The write pump is waiting in `range cli.send`.
Receiving(c) == wpc[c] = "recv"

\* ------------------------------------------------------------ hub helpers
\* (mutant) the loop does not leave the connection it has just served: it
\* comes to one of the connections still to visit, and keeps it to visit.
HubAdvanceAgain(pc, todo) ==
    IF todo = {}
    THEN /\ hubpc' = "idle"
         /\ hubCur' = None
         /\ hubTodo' = {}
         /\ hubMsg' = NoMsg
         /\ hubEv' = NoEv
    ELSE /\ hubpc' = pc
         /\ \E d \in todo : hubCur' = d /\ hubTodo' = todo
         /\ UNCHANGED <<hubMsg, hubEv>>

\* The hub's loop moves on: to one of the connections still to visit (Go
\* iterates a map in an unspecified order), or back to the select when none is left.
HubAdvance(pc, todo) ==
    IF todo = {}
    THEN /\ hubpc' = "idle"
         /\ hubCur' = None
         /\ hubTodo' = {}
         /\ hubMsg' = NoMsg
         /\ hubEv' = NoEv
    ELSE /\ hubpc' = pc
         /\ \E d \in todo : hubCur' = d /\ hubTodo' = todo \ {d}
         /\ UNCHANGED <<hubMsg, hubEv>>

\* The hub starts a loop over `todo` with message m, for event ev.
HubStart(pc, todo, m, ev) ==
    IF todo = {}
    THEN /\ hubpc' = "idle"
         /\ hubCur' = None
         /\ hubTodo' = {}
         /\ hubMsg' = NoMsg
         /\ hubEv' = NoEv
    ELSE /\ hubpc' = pc
         /\ \E d \in todo : hubCur' = d /\ hubTodo' = todo \ {d}
         /\ hubMsg' = m
         /\ hubEv' = ev

Event(kind, c, live) ==
    [kind |-> kind, conn |-> c, n |-> nev + 1, live |-> live,
     ready |-> {d \in live : Receiving(d)}]

\* mn.clients[conn] = true
RegisterAdd(c) == clients \cup {c}

\* (mutant) the membership test at line 66 is missing.
UnregisterPresentAlways(c) == TRUE

\* if _, ok := mn.clients[conn]; ok
UnregisterPresent(c) == c \in clients

\* (mutant) the delete at line 68 is missing.
UnregisterDeleteKeep(c) == clients

\* delete(manager.clients, conn)
UnregisterDelete(c) == clients \ {c}

\* (mutant) send without `if conn != ignore`.
SendTargetsAll(live, ignore) == live

\* send: the connections visited by `for conn := range mn.clients` that pass
\* `if conn != ignore`.
SendTargets(live, ignore) == live \ {ignore}

\* (mutant) the Broadcast loop skips the connection the message came from.
RelayTargetsOthers(live, sender) == live \ {sender}

\* The connections the Broadcast loop visits: for conn := range mn.clients.
RelayTargets(live, sender) == live

\* (mutant) the delete at line 82 is missing.
EvictDeleteKeep(d) == clients

\* default branch of the Broadcast loop: delete(mn.clients, conn)
EvictDelete(d) == clients \ {d}

\* close(conn.send): panics when the channel is already closed.
Close(c) ==
    /\ closeCount' = [closeCount EXCEPT ![c] = @ + 1]
    /\ panicked' = (panicked \/ chanClosed(c))

\* conn.send <- message received by the write pump of d.
Deliver(d, m, n) ==
    /\ wpc' = [wpc EXCEPT ![d] = "writing"]
    /\ wcur' = [wcur EXCEPT ![d] = m]
    /\ got' = [got EXCEPT ![d] = Append(@, [ev |-> n, msg |-> m])]

\* ------------------------------------------------------------ wsPage
\* wsPage up to `manager.register <- client`: the upgrade fails (http.NotFound,
\* return), uuid.NewV4 fails (return), or the Client is made and wsPage blocks
\* handing it to the hub.
\* (mutant) the return at line 143 is missing: wsPage goes on after a failed uuid.NewV4.
WsAfterNoReturn(outcome) == IF outcome = "abandoned" THEN "register" ELSE outcome

\* Where wsPage is after its first lines: returned after http.NotFound
\* ("rejected", line 136), returned after the uuid error ("abandoned", line
\* 143), or at `manager.register <- client` ("register", line 146).
WsAfter(outcome) == outcome

WsPage(c) ==
    /\ ~panicked
    /\ wspc[c] = "new"
    /\ c \in env.conns
    /\ \E outcome \in {"rejected", "abandoned", "register"} :
          /\ outcome # "register" => MayFail
          /\ wspc' = [wspc EXCEPT ![c] = WsAfter(outcome)]
          /\ nfault' = IF outcome # "register" THEN nfault + 1 ELSE nfault
          /\ failed' = IF outcome # "register" THEN failed \cup {c} ELSE failed
    /\ UNCHANGED <<env, clients, closeCount, hubVars, rpc, rmsg, wpc, wcur, sockClosed, got,
                   wire, unregSent, nread, nev, registered, unregistered, evicted, panicked>>

\* (mutant) the go statements come before `manager.register <- client`.
PumpsStartedBeforeRegister(c) == wspc[c] \in {"register", "go"}

\* wsPage of c is at its go statements (lines 148-149): the send of the Client
\* on manager.register (line 146) has returned.
PumpsStarted(c) == wspc[c] = "go"

\* go client.read(); go client.write(): the read pump goes to ReadMessage, the
\* write pump exists but is not yet waiting on cli.send.
WsGo(c) ==
    /\ ~panicked
    /\ PumpsStarted(c)
    /\ wspc' = [wspc EXCEPT ![c] = "done"]
    /\ rpc' = [rpc EXCEPT ![c] = "reading"]
    /\ wpc' = [wpc EXCEPT ![c] = "start"]
    /\ UNCHANGED <<env, clients, closeCount, hubVars, rmsg, wcur, sockClosed, got, wire,
                   unregSent, nread, nfault, nev, ghostSets, panicked>>

\* ------------------------------------------------------------ ClientManager.start
\* case conn := <-mn.register, taken together with wsPage's send.
HubRegister(c) ==
    /\ ~panicked
    /\ hubpc = "idle"
    /\ wspc[c] = "register"
    /\ wspc' = [wspc EXCEPT ![c] = "go"]
    /\ clients' = RegisterAdd(c)
    /\ nev' = nev + 1
    /\ registered' = registered \cup {c}
    /\ HubStart("send", SendTargets(clients', c), JoinNotice, Event("register", c, clients'))
    /\ UNCHANGED <<env, closeCount, rpc, rmsg, wpc, wcur, sockClosed, got, wire, unregSent,
                   nread, nfault, unregistered, evicted, failed, panicked>>

\* case conn := <-mn.unregister, taken together with the read pump's send
\* (line 107 in the loop, line 100 in the deferred function).
HubUnregister(c) ==
    /\ ~panicked
    /\ hubpc = "idle"
    /\ rpc[c] \in {"unreg1", "unreg2"}
    /\ rpc' = [rpc EXCEPT ![c] = IF rpc[c] = "unreg1" THEN "close1" ELSE "close2"]
    /\ unregSent' = [unregSent EXCEPT ![c] = @ + 1]
    /\ nev' = nev + 1
    /\ unregistered' = unregistered \cup {c}
    /\ IF UnregisterPresent(c)
       THEN /\ Close(c)
            /\ clients' = UnregisterDelete(c)
            /\ HubStart("send", SendTargets(clients', c), LeftNotice,
                        Event("unregister", c, clients'))
       ELSE /\ UNCHANGED <<closeCount, panicked, clients, hubVars>>
    /\ UNCHANGED <<env, wspc, rmsg, wpc, wcur, sockClosed, got, wire, nread, nfault,
                   registered, evicted, failed>>

\* case message := <-mn.broadcast, taken together with the read pump's send at line 112.
HubBroadcast(c) ==
    /\ ~panicked
    /\ hubpc = "idle"
    /\ rpc[c] = "bcast"
    /\ rpc' = [rpc EXCEPT ![c] = "reading"]
    /\ rmsg' = [rmsg EXCEPT ![c] = NoMsg]
    /\ nev' = nev + 1
    /\ HubStart("range", RelayTargets(clients, c), rmsg[c], Event("broadcast", c, clients))
    /\ UNCHANGED <<env, clients, closeCount, wspc, wpc, wcur, sockClosed, got, wire, unregSent,
                   nread, nfault, ghostSets, panicked>>

\* One iteration of send's loop: `conn.send <- message` blocks until the write
\* pump of conn receives; a send on a closed channel panics.
HubSendStep ==
    /\ ~panicked
    /\ hubpc = "send"
    /\ IF chanClosed(hubCur)
       THEN /\ panicked' = TRUE
            /\ UNCHANGED <<hubVars, wpc, wcur, got>>
       ELSE /\ Receiving(hubCur)
            /\ Deliver(hubCur, hubMsg, hubEv.n)
            /\ HubAdvance("send", hubTodo)
            /\ UNCHANGED panicked
    /\ UNCHANGED <<env, clients, closeCount, wspc, rpc, rmsg, sockClosed, wire, unregSent,
                   nread, nfault, nev, ghostSets>>

\* One iteration of the Broadcast loop: the select sends when the write pump is
\* waiting, and otherwise takes the default branch (close, delete).
HubRelayStep ==
    /\ ~panicked
    /\ hubpc = "range"
    /\ IF chanClosed(hubCur)
       THEN /\ panicked' = TRUE
            /\ UNCHANGED <<hubVars, wpc, wcur, got, clients, closeCount, evicted>>
       ELSE IF Receiving(hubCur)
       THEN /\ Deliver(hubCur, hubMsg, hubEv.n)
            /\ HubAdvance("range", hubTodo)
            /\ UNCHANGED <<clients, closeCount, evicted, panicked>>
       ELSE /\ Close(hubCur)
            /\ clients' = EvictDelete(hubCur)
            /\ evicted' = evicted \cup {hubCur}
            /\ HubAdvance("range", hubTodo)
            /\ UNCHANGED <<wpc, wcur, got>>
    /\ UNCHANGED <<env, wspc, rpc, rmsg, sockClosed, wire, unregSent, nread, nfault, nev,
                   registered, unregistered, failed>>

\* ------------------------------------------------------------ Client.read
\* cli.socket.ReadMessage() returns a message; the pump marshals it and blocks
\* handing it to the hub.
ReadMsg(c) ==
    /\ ~panicked
    /\ rpc[c] = "reading"
    /\ ~sockClosed[c]
    /\ nread < env.msgs
    /\ \E t \in Texts : rmsg' = [rmsg EXCEPT ![c] = Relay(c, t)]
    /\ rpc' = [rpc EXCEPT ![c] = "bcast"]
    /\ nread' = nread + 1
    /\ UNCHANGED <<env, clients, closeCount, hubVars, wspc, wpc, wcur, sockClosed, got, wire,
                   unregSent, nfault, nev, ghostSets, panicked>>

\* ReadMessage returns an error because of the peer or the network.
ReadErr(c) ==
    /\ ~panicked
    /\ rpc[c] = "reading"
    /\ ~sockClosed[c]
    /\ MayFail
    /\ nfault' = nfault + 1
    /\ rpc' = [rpc EXCEPT ![c] = "unreg1"]
    /\ UNCHANGED <<env, clients, closeCount, hubVars, wspc, rmsg, wpc, wcur, sockClosed, got,
                   wire, unregSent, nread, nev, ghostSets, panicked>>

\* ReadMessage returns an error because this side has closed the socket.
ReadClosed(c) ==
    /\ ~panicked
    /\ rpc[c] = "reading"
    /\ sockClosed[c]
    /\ rpc' = [rpc EXCEPT ![c] = "unreg1"]
    /\ UNCHANGED <<env, clients, closeCount, hubVars, wspc, rmsg, wpc, wcur, sockClosed, got,
                   wire, unregSent, nread, nfault, nev, ghostSets, panicked>>

\* cli.socket.Close() at line 108 (then break, into the deferred function) and
\* at line 101 (then the pump is over).
ReadClose(c) ==
    /\ ~panicked
    /\ rpc[c] \in {"close1", "close2"}
    /\ sockClosed' = [sockClosed EXCEPT ![c] = TRUE]
    /\ rpc' = [rpc EXCEPT ![c] = IF rpc[c] = "close1" THEN "unreg2" ELSE "done"]
    /\ UNCHANGED <<env, clients, closeCount, hubVars, wspc, rmsg, wpc, wcur, got, wire,
                   unregSent, nread, nfault, nev, ghostSets, panicked>>

\* ------------------------------------------------------------ Client.write
Frame(kind, data, ok) == [frame |-> kind, data |-> data, ok |-> ok]

\* Outcome of a WriteMessage call: an error when this side has closed the
\* socket; otherwise it succeeds or fails as the peer and the network decide.
WriteOutcome(c, ok) ==
    IF sockClosed[c] THEN ~ok /\ UNCHANGED nfault
    ELSE IF ok THEN UNCHANGED nfault
    ELSE MayFail /\ nfault' = nfault + 1

\* The write pump reaches `range cli.send` and waits.
WriteStart(c) ==
    /\ ~panicked
    /\ wpc[c] = "start"
    /\ wpc' = [wpc EXCEPT ![c] = "recv"]
    /\ UNCHANGED <<env, clients, closeCount, hubVars, wspc, rpc, rmsg, wcur, sockClosed, got,
                   wire, unregSent, nread, nfault, nev, ghostSets, panicked>>

\* Where the pump goes after WriteMessage of a queued message: on to the next
\* receive, or (break) out of the loop to line 128.
AfterWrite(ok) == IF ok THEN "recv" ELSE "final"

\* cli.socket.WriteMessage(websocket.TextMessage, message) returns.
WriteDone(c) ==
    /\ ~panicked
    /\ wpc[c] = "writing"
    /\ \E ok \in BOOLEAN :
          /\ WriteOutcome(c, ok)
          /\ wire' = [wire EXCEPT ![c] = Append(@, Frame("text", wcur[c], ok))]
          /\ wpc' = [wpc EXCEPT ![c] = AfterWrite(ok)]
    /\ wcur' = [wcur EXCEPT ![c] = NoMsg]
    /\ UNCHANGED <<env, clients, closeCount, hubVars, wspc, rpc, rmsg, sockClosed, got,
                   unregSent, nread, nev, ghostSets, panicked>>

\* `range cli.send` ends: the channel is closed (and, being unbuffered, empty).
WriteChanClosed(c) ==
    /\ ~panicked
    /\ wpc[c] = "recv"
    /\ chanClosed(c)
    /\ wpc' = [wpc EXCEPT ![c] = "final"]
    /\ UNCHANGED <<env, clients, closeCount, hubVars, wspc, rpc, rmsg, wcur, sockClosed, got,
                   wire, unregSent, nread, nfault, nev, ghostSets, panicked>>

\* (mutant) the pump leaves without the close frame of line 128.
WriteFinalSkip(c) ==
    /\ ~panicked
    /\ wpc[c] = "final"
    /\ wpc' = [wpc EXCEPT ![c] = "defer"]
    /\ UNCHANGED <<env, clients, closeCount, hubVars, wspc, rpc, rmsg, wcur, sockClosed, got,
                   wire, unregSent, nread, nfault, nev, ghostSets, panicked>>

\* cli.socket.WriteMessage(websocket.CloseMessage, []byte{}) at line 128.
WriteFinal(c) ==
    /\ ~panicked
    /\ wpc[c] = "final"
    /\ \E ok \in BOOLEAN :
          /\ WriteOutcome(c, ok)
          /\ wire' = [wire EXCEPT ![c] = Append(@, Frame("close", NoMsg, ok))]
    /\ wpc' = [wpc EXCEPT ![c] = "defer"]
    /\ UNCHANGED <<env, clients, closeCount, hubVars, wspc, rpc, rmsg, wcur, sockClosed, got,
                   unregSent, nread, nev, ghostSets, panicked>>

\* The deferred cli.socket.Close() of the write pump.
WriteDefer(c) ==
    /\ ~panicked
    /\ wpc[c] = "defer"
    /\ sockClosed' = [sockClosed EXCEPT ![c] = TRUE]
    /\ wpc' = [wpc EXCEPT ![c] = "done"]
    /\ UNCHANGED <<env, clients, closeCount, hubVars, wspc, rpc, rmsg, wcur, got, wire,
                   unregSent, nread, nfault, nev, ghostSets, panicked>>

\* ------------------------------------------------------------ specification
Next ==
    \/ \E c \in Conns : WsPage(c)
    \/ \E c \in Conns : WsGo(c)
    \/ \E c \in Conns : HubRegister(c)
    \/ \E c \in Conns : HubUnregister(c)
    \/ \E c \in Conns : HubBroadcast(c)
    \/ HubSendStep
    \/ HubRelayStep
    \/ \E c \in Conns : ReadMsg(c)
    \/ \E c \in Conns : ReadErr(c)
    \/ \E c \in Conns : ReadClosed(c)
    \/ \E c \in Conns : ReadClose(c)
    \/ \E c \in Conns : WriteStart(c)
    \/ \E c \in Conns : WriteDone(c)
    \/ \E c \in Conns : WriteChanClosed(c)
    \/ \E c \in Conns : WriteFinal(c)
    \/ \E c \in Conns : WriteDefer(c)

Spec == Init /\ [][Next]_vars

\* The Go scheduler runs every goroutine that can take a step, and a socket call
\* returns.  What the peers do (connect, send a message, fail) is not forced.
FairSpec ==
    /\ FairInit /\ [][Next]_vars
    /\ WF_vars(HubSendStep)
    /\ WF_vars(HubRelayStep)
    /\ \A c \in Conns :
          /\ WF_vars(HubRegister(c))
          /\ WF_vars(HubUnregister(c))
          /\ WF_vars(HubBroadcast(c))
          /\ WF_vars(WsGo(c))
          /\ WF_vars(ReadClosed(c))
          /\ WF_vars(ReadClose(c))
          /\ WF_vars(WriteStart(c))
          /\ WF_vars(WriteDone(c))
          /\ WF_vars(WriteChanClosed(c))
          /\ WF_vars(WriteFinal(c))
          /\ WF_vars(WriteDefer(c))

\* ------------------------------------------------------------ properties
\* The entries of got[d] that come from event number n, now and after the step.
From(d, n) == {i \in DOMAIN got[d] : got[d][i].ev = n}
FromNext(d, n) == {i \in DOMAIN got'[d] : got'[d][i].ev = n}
\* The messages the write pump of d has received, in order.
Msgs(d) == [i \in DOMAIN got[d] |-> got[d][i].msg]
\* The hub's step that ends the processing of an event of the given loop.
Completes(pc) == hubpc = pc /\ hubpc' = "idle"
\* The hub's step in which the write pump of d receives a message.
DeliversTo(d) == got'[d] # got[d]
\* Upper bound of the number of events the hub receives.
EventNumbers == 1 .. (3 * MaxConns + MaxMsgs)

\* C1: as long as no Broadcast has evicted anyone, whenever the hub is back at
\* its select the live set is exactly the connections whose Register it has
\* received and whose Unregister it has not (duplicate Unregisters included).
C1_LiveSetIsRegisteredNotUnregistered ==
    (hubpc = "idle" /\ evicted = {}) => clients = registered \ unregistered

\* C1 witness: a connection has had both of its Unregisters processed while
\* another connection is live.
C1_Witness ==
    /\ hubpc = "idle"
    /\ evicted = {}
    /\ clients # {}
    /\ \E c \in Conns : unregSent[c] = 2 /\ c \in registered /\ c \notin clients

\* C2: under fair scheduling the hub, once it has taken an event, always comes
\* back to its select, whatever the write pumps of the live connections do.
C2_HubAlwaysReturns == (hubpc # "idle") ~> (hubpc = "idle")

\* A step of the hub inside send (Register, Unregister): the receiver is not
\* the connection the event is about, was live when the notice was sent, and
\* has not had this notice before; at the last step every other connection
\* live at the sending has it once, and the connection of the event has not.
NoticeStep ==
    hubpc = "send" =>
       /\ \A d \in Conns : DeliversTo(d) =>
             /\ d # hubEv.conn
             /\ d \in hubEv.live
             /\ From(d, hubEv.n) = {}
             /\ got'[d][Len(got'[d])].msg =
                   (IF hubEv.kind = "register" THEN JoinNotice ELSE LeftNotice)
       /\ hubpc' = "idle" =>
             /\ \A d \in hubEv.live \ {hubEv.conn} : Cardinality(FromNext(d, hubEv.n)) = 1
             /\ FromNext(hubEv.conn, hubEv.n) = {}

C4_EvictedIsRemovedAndClosedOnce ==
    /\ \A d \in evicted : d \notin clients /\ chanClosed(d)
    /\ \A c \in Conns : closeCount[c] <= 1
    /\ ~panicked

\* C4 witness: a connection was evicted, and later both Unregisters of its read
\* pump were processed; its queue has been closed once.
C4_Witness ==
    \E d \in evicted : rpc[d] = "done" /\ closeCount[d] = 1 /\ hubpc = "idle"

\* The hub's step that receives Unregister(c) when c is not in the live set.
AbsentStep ==
    \A c \in Conns :
       (unregSent'[c] # unregSent[c] /\ c \notin clients) =>
          /\ clients' = clients
          /\ closeCount' = closeCount
          /\ got' = got
          /\ wpc' = wpc
          /\ hubpc' = "idle"
          /\ ~panicked'

\* C5: processing Unregister(c) when c is not in the live set leaves the live
\* set and every queue as they are, delivers nothing, and leaves the hub at its
\* select.
C5_UnregisterAbsentIsNoOp == [][AbsentStep]_vars

\* C5 witness: an Unregister of a connection that a Broadcast had evicted has
\* been processed while another connection is live.
C5_Witness ==
    \E c \in evicted : unregSent[c] >= 1 /\ closeCount[c] = 1 /\ clients # {}

\* At the end of the Broadcast, d holds the envelope {sender, "hi"} once.
RelayedOnce(d) ==
    /\ Cardinality(FromNext(d, hubEv.n)) = 1
    /\ \A i \in FromNext(d, hubEv.n) :
          /\ Field(got'[d][i].msg, "Sender") = hubEv.conn
          /\ Field(got'[d][i].msg, "content") = "hi"

\* The last step of a Broadcast that found every live write pump waiting.
AllReadyRelayEnds ==
    /\ Completes("range")
    /\ hubEv.ready = hubEv.live

ClaimedRelayStep ==
    AllReadyRelayEnds =>
       /\ \A d \in hubEv.live \ {hubEv.conn} : RelayedOnce(d)
       /\ FromNext(hubEv.conn, hubEv.n) = {}

AmendedRelayStep ==
    AllReadyRelayEnds => \A d \in hubEv.live : RelayedOnce(d)

\* C6 as claimed: with all write pumps ready, a message read from A reaches
\* every other live connection once, as {sender: A, content: "hi"}, and A
\* receives nothing for it.
C6_SenderReceivesNothing == [][ClaimedRelayStep]_vars

\* C6 as amended: with all write pumps ready, a message read from A reaches
\* every live connection once, as {sender: A, content: "hi"}: B and C, and A too.
C6_EveryLiveReceivesRelay == [][AmendedRelayStep]_vars

\* C6 witness: A, B, C registered in that order, then A's "hi" went round: each
\* of the three holds it.
C6_Witness ==
    /\ hubpc = "idle"
    /\ clients = {"A", "B", "C"}
    /\ Msgs("A") = <<JoinNotice, JoinNotice, Relay("A", "hi")>>
    /\ Msgs("B") = <<JoinNotice, Relay("A", "hi")>>
    /\ Msgs("C") = <<Relay("A", "hi")>>

\* C7: once the hub has taken the Unregister of a live connection (its read
\* pump saw a read error), every connection that remains in the live set
\* eventually receives the left-notice of that event.
C7_LeftNoticeReachesRemaining ==
    \A n \in EventNumbers : \A d \in Conns :
       (hubEv.kind = "unregister" /\ hubEv.n = n /\ d \in hubEv.live)
          ~> (\E i \in From(d, n) : got[d][i].msg = LeftNotice)

\* C8: a read pump hands the hub one Unregister over its whole life: never
\* two, and one when it has ended.
C8_ExactlyOneUnregister ==
    \A c \in Conns :
       /\ unregSent[c] <= 1
       /\ rpc[c] = "done" => unregSent[c] = 1

\* C9: a failed WriteMessage is the last call the write pump makes on the
\* socket: no message and no close frame is written after it.
C9_NoWriteAfterFailure ==
    \A c \in Conns : \A i \in DOMAIN wire[c] : ~wire[c][i].ok => i = Len(wire[c])

NoWriteFailed(c) == \A i \in DOMAIN wire[c] : wire[c][i].ok

\* Every message received from the queue, in order, then one close frame.
CleanWire(c) ==
    wire[c] = [i \in 1 .. Len(got[c]) |-> Frame("text", got[c][i].msg, TRUE)]
                 \o <<Frame("close", NoMsg, TRUE)>>

ReadPumpHasClosed(c) == rpc[c] \in {"unreg2", "close2", "done"}

\* A write pump that ended on a closed queue without a failed write has written
\* all it received and one close frame, and the socket is closed; and a socket
\* that the read pump has not closed is closed only by a write pump that ended.
CleanEnd ==
    \A c \in Conns :
       /\ (wpc[c] = "done" /\ chanClosed(c) /\ NoWriteFailed(c)) =>
             CleanWire(c) /\ sockClosed[c]
       /\ (sockClosed[c] /\ ~ReadPumpHasClosed(c)) => wpc[c] = "done"

\* C10: once the hub has closed a connection's queue, its write pump
\* eventually ends; when no write failed it has by then written every message
\* the hub delivered, then exactly one close frame, and only then closed the socket.
C10_WritePumpDrainsAndEnds ==
    /\ \A c \in Conns : chanClosed(c) ~> (wpc[c] = "done")
    /\ []CleanEnd

\* C10 witness: a write pump has ended on a closed queue without a failed
\* write, after two messages and the close frame.
C10_Witness ==
    \E c \in Conns :
       /\ wpc[c] = "done"
       /\ chanClosed(c)
       /\ NoWriteFailed(c)
       /\ Len(got[c]) >= 2
       /\ Len(wire[c]) = Len(got[c]) + 1

\* The step of wsPage in which the upgrade or uuid.NewV4 fails.
FailingStep == failed' # failed =>
    UNCHANGED <<clients, closeCount, hubVars, rpc, wpc, got, wire, nev, registered>>

\* A failed session is where its return left it: the hub has not received a
\* Register for it, it is not in the live set, and it has no pump.
FailedStaysOut ==
    \A c \in failed :
       /\ wspc[c] \in {"rejected", "abandoned"}
       /\ c \notin registered
       /\ c \notin clients
       /\ rpc[c] = "none"
       /\ wpc[c] = "none"
       /\ got[c] = <<>>

\* C11: a session whose upgrade or identity generation fails never reaches the
\* hub: no Register is submitted for it and no pump is started for it, ever, and
\* the failing step leaves the live set, every queue and the hub as they are.
C11_FailedSessionNeverReachesHub == []FailedStaysOut /\ [][FailingStep]_vars

\* C11 witness: a session was abandoned after a failed uuid.NewV4 while the
\* hub went on serving two live connections.
C11_Witness ==
    /\ \E c \in failed : wspc[c] = "abandoned"
    /\ Cardinality(clients) = 2
    /\ \E d \in clients : got[d] # <<>>

\* C12: delivery never blocks the hub: in no reachable state is the hub inside
\* a loop waiting for a recipient whose write pump is not there to receive; it
\* waits at its select only.
C12_HubNeverWaitsOnRecipient ==
    ~(hubpc = "send" /\ ~chanClosed(hubCur) /\ ~Receiving(hubCur))

\* C13: whenever the hub is at its select, every connection in the live set
\* has an open queue (so a closed queue belongs to no live connection); and the
\* hub never sends on a closed queue nor closes a queue twice.
C13_LiveMeansOpen ==
    /\ hubpc = "idle" => \A c \in clients : ~chanClosed(c)
    /\ \A c \in Conns : closeCount[c] <= 1
    /\ ~panicked

\* C13 witness: the hub is at its select after one connection was evicted and
\* another was unregistered while live; a third is live with an open queue.
C13_Witness ==
    /\ hubpc = "idle"
    /\ evicted # {}
    /\ \E c \in unregistered \ evicted : closeCount[c] = 1 /\ unregSent[c] = 2
    /\ \E c \in clients : ~chanClosed(c) /\ got[c] # <<>>

\* d was tried by the Broadcast that ends in this step: it holds the message
\* once, or the default branch removed it and it holds nothing of the event.
RelayTried(d) ==
    \/ /\ Cardinality(FromNext(d, hubEv.n)) = 1
       /\ \A i \in FromNext(d, hubEv.n) : got'[d][i].msg = hubMsg
    \/ /\ d \in evicted'
       /\ d \notin clients'
       /\ FromNext(d, hubEv.n) = {}

\* The hub's iteration for the sender itself, its write pump waiting.
RelaySenderStep ==
    /\ hubpc = "range"
    /\ hubVars' # hubVars
    /\ hubCur = hubEv.conn
    /\ Receiving(hubCur)

RelayExcludesNoOne ==
    /\ Completes("range") => \A d \in hubEv.live : RelayTried(d)
    /\ RelaySenderStep =>
          /\ got'[hubCur] = Append(got[hubCur], [ev |-> hubEv.n, msg |-> hubMsg])
          /\ Field(hubMsg, "Sender") = hubCur
          /\ hubCur \in clients'

\* C14: a Broadcast tries every connection of the live set, the sender
\* included: at its end each of them holds the message once or was removed by
\* the default branch, and a sender whose write pump is waiting gets its own
\* message.
C14_RelayExcludesNoOne == [][RelayExcludesNoOne]_vars

\* C14 witness: a Broadcast has ended in which the sender got its own message
\* back while another connection was removed by the default branch.
C14_Witness ==
    /\ hubpc = "idle"
    /\ evicted # {}
    /\ \E c \in clients : \E i \in DOMAIN got[c] : got[c][i].msg = Relay(c, "hi")

\* While the hub is in the Broadcast loop nothing it hands over is a
\* left-notice, and the default branch starts no send of one.
RelaySendsNoLeftNotice ==
    hubpc = "range" =>
       /\ hubMsg # LeftNotice
       /\ hubpc' \in {"range", "idle"}
       /\ \A d \in Conns : DeliversTo(d) =>
             got'[d] = Append(got[d], [ev |-> hubEv.n, msg |-> hubMsg])

\* The hub takes an Unregister of a connection that a Broadcast removed: the
\* case body is skipped, so no left-notice is made or sent.
EvictedUnregisterStep ==
    \A c \in evicted : unregSent'[c] # unregSent[c] =>
       /\ ~UnregisterPresent(c)
       /\ UNCHANGED <<clients, closeCount, hubVars, got, panicked>>

\* No left-notice in delivery is about a connection that a Broadcast removed.
NoLeftNoticeForEvicted ==
    hubEv.kind = "unregister" => hubEv.conn \notin evicted

\* C15: a connection removed by the default branch of a Broadcast produces no
\* left-notice: none during that Broadcast, and none when the hub later takes
\* the Unregister events of its read pump, which find it absent.
C15_EvictedLeavesSilently ==
    /\ []NoLeftNoticeForEvicted
    /\ [][RelaySendsNoLeftNotice /\ EvictedUnregisterStep]_vars

\* C15 witness: a removed connection's read pump has handed over both of its
\* Unregister events and ended; a live connection holds messages, none of them
\* a left-notice.
C15_Witness ==
    /\ hubpc = "idle"
    /\ \E c \in evicted : unregSent[c] = 2 /\ rpc[c] = "done"
    /\ \E d \in clients :
          /\ got[d] # <<>>
          /\ \A i \in DOMAIN got[d] : got[d][i].msg # LeftNotice

\* The WriteMessage(TextMessage, ...) calls of c's write pump, in order.
TextWire(c) == SelectSeq(wire[c], LAMBDA f : f.frame = "text")

\* What c received is in the order of the hub's events, one message per event.
InHubOrder(c) ==
    \A i, j \in DOMAIN got[c] : i < j => got[c][i].ev < got[c][j].ev

\* What c's write pump wrote is what it received, in that order, each once; at
\* most the message in hand is not written yet.
WireFollowsQueue(c) ==
    /\ Len(TextWire(c)) <= Len(got[c])
    /\ Len(got[c]) <= Len(TextWire(c)) + 1
    /\ \A i \in DOMAIN TextWire(c) : TextWire(c)[i].data = got[c][i].msg

\* C16: for every connection, what its write pump writes to the socket is a
\* subsequence of the messages in the order the hub processed their events, with
\* no reordering and no duplication; so two connections that receive the same
\* two messages receive them in the same order.
C16_WireInHubOrder ==
    /\ \A c \in Conns : InHubOrder(c) /\ WireFollowsQueue(c)
    /\ \A c, d \in Conns : \A i \in DOMAIN got[c] : \A j \in DOMAIN got[d] :
          got[c][i].ev = got[d][j].ev => got[c][i].msg = got[d][j].msg

\* C16 witness: two connections have each written the messages of the same two
\* hub events, a joined-notice and then a relayed message, in that order.
C16_Witness ==
    \E c, d \in Conns :
       /\ c # d
       /\ Len(TextWire(c)) = 3 /\ Len(TextWire(d)) = 2
       /\ got[c][2].ev = got[d][1].ev /\ got[c][3].ev = got[d][2].ev
       /\ TextWire(d)[1].data = JoinNotice
       /\ \E s \in Conns : TextWire(d)[2].data = Relay(s, "hi")
       /\ \A i \in DOMAIN wire[c] : wire[c][i].ok
       /\ \A i \in DOMAIN wire[d] : wire[d][i].ok

\* Both pumps of c have returned and the socket is closed.
TornDown(c) == wpc[c] = "done" /\ rpc[c] = "done" /\ sockClosed[c]

\* C17: every connection whose queue has been closed, by an Unregister or by
\* the default branch of a Broadcast, is eventually torn down: its write pump
\* and its read pump have returned and its socket is closed.
C17_ClosedQueueIsTornDown ==
    \A c \in Conns : chanClosed(c) ~> TornDown(c)

\* The hub takes a Broadcast that c's read pump hands over.
BroadcastTaken(c) == rpc[c] = "bcast" /\ rpc'[c] = "reading"

\* When the hub takes a Broadcast of c it is at its select, c's Register has
\* been taken (and so is processed to its end), and no Unregister of c has.
BroadcastInLifecycle ==
    \A c \in Conns : BroadcastTaken(c) =>
       /\ hubpc = "idle" /\ hubEv = NoEv
       /\ c \in registered /\ wspc[c] = "done"
       /\ c \notin unregistered /\ unregSent[c] = 0

\* Once the hub has taken an Unregister of c, c's read pump reads no message
\* and offers no Broadcast; while c's Register is in hand none of c's is.
NoBroadcastOutsideLifecycle ==
    /\ \A c \in unregistered : rpc[c] \notin {"reading", "bcast"}
    /\ \A c \in Conns \ registered : rpc[c] = "none"
    /\ hubEv.kind = "broadcast" => hubEv.conn \in registered \ unregistered

\* C18: the hub processes the events of one connection in the order of its
\* lifecycle: its Register is processed to the end before any Broadcast of a
\* message it sent, and no such Broadcast is processed after its first
\* Unregister.
C18_EventsInLifecycleOrder ==
    /\ []NoBroadcastOutsideLifecycle
    /\ [][BroadcastInLifecycle]_vars

\* C18 witness: a connection's message was relayed, and after that the hub
\* took both of its Unregisters.
C18_Witness ==
    \E c \in registered :
       /\ unregSent[c] = 2
       /\ \E d \in Conns : \E i \in DOMAIN got[d] : got[d][i].msg = Relay(c, "hi")

\* Positions of a write pump that is not waiting on its queue: not yet started
\* or not yet at the loop, busy in WriteMessage, or out of the loop.
NotWaiting == {"none", "start", "writing", "final", "defer", "done"}

\* One iteration of the Broadcast loop, for hubCur.
RelayIteration == hubpc = "range" /\ hubVars' # hubVars

\* The iteration removes hubCur exactly when its write pump is not waiting; a
\* waiting pump gets the message and stays live with its queue open.
RelayEvictsIffNotWaiting ==
    RelayIteration =>
       /\ hubCur \in clients /\ ~chanClosed(hubCur)
       /\ wpc[hubCur] \in NotWaiting =>
             /\ hubCur \in evicted' /\ hubCur \notin clients'
             /\ closeCount'[hubCur] = 1
             /\ got'[hubCur] = got[hubCur]
       /\ wpc[hubCur] = "recv" =>
             /\ hubCur \notin evicted' /\ hubCur \in clients'
             /\ closeCount'[hubCur] = 0
             /\ got'[hubCur] = Append(got[hubCur], [ev |-> hubEv.n, msg |-> hubMsg])
             /\ wpc'[hubCur] = "writing"

\* Nothing but such an iteration evicts.
OnlyRelayEvicts ==
    evicted' # evicted =>
       /\ RelayIteration
       /\ evicted' = evicted \cup {hubCur}
       /\ wpc[hubCur] \in NotWaiting

\* C19: the queue has capacity zero, so a Broadcast removes a live connection
\* exactly when its write pump is not at that moment waiting on the queue (not
\* started, busy in a socket write, or returned); a connection whose write pump
\* is waiting is never removed by a Broadcast and receives the message.
C19_EvictedIffNotWaiting == [][RelayEvictsIffNotWaiting /\ OnlyRelayEvicts]_vars

\* C19 witness: inside one Broadcast a waiting connection has received the
\* message, a connection whose write pump had not reached its loop has been
\* removed, and the hub is at a connection busy in a socket write.
C19_Witness ==
    /\ hubpc = "range"
    /\ \E a \in clients : From(a, hubEv.n) # {}
    /\ \E b \in evicted : wpc[b] = "start" /\ b \in hubEv.live
    /\ hubCur \in clients /\ wpc[hubCur] = "writing"
====
